---- MODULE Spec2Model ----
(***************************************************************************)
(* A model of reaper-test's orchestration engine (src/src/lib.rs): the     *)
(* global ReaperTest singleton, the step registry, the command hook, the   *)
(* control surface that fires the run in integration-test mode, the step   *)
(* runner with its catch_unwind boundary, and the mapping of the run's     *)
(* result to process exit / panic.                                         *)
(*                                                                         *)
(* The host (REAPER) is single threaded.  A step operation is code of the  *)
(* plugin author: it returns Ok, returns Err(reason), panics, or calls     *)
(* back into the host, which may dispatch a command to the hook while the  *)
(* operation is still executing.  A run is therefore a frame on a call     *)
(* stack, and the only points at which anything else can happen during a   *)
(* run are inside such an operation.                                       *)
(*                                                                         *)
(* Environment assumption: a panic that leaves a host callback is stopped  *)
(* at the host boundary and control returns to the host (the process keeps *)
(* running); the destroy hook runs when the plugin is unloaded, after      *)
(* which the host makes no further callbacks.                              *)
(***************************************************************************)
EXTENDS Integers, Sequences, FiniteSets, TLC

\* ---------------------------------------------------------------- bounds
MaxSteps == 2      \* steps pushed to the registry
MaxRuns == 2       \* runs started in one process (so runs nested)
MaxSetups == 2     \* calls of setup
MaxPolls == 2      \* host poll cycles

\* ------------------------------------------------------- program constants
ExitSuccess == 0
ExitFailure == 172

\* ------------------------------------------------------------ input sets
ActionNames == {"test_action"}
HostCommands == 1 .. 3

\* Option<T>
None == [some |-> FALSE]
Some(v) == [some |-> TRUE, val |-> v]

\* TestStepResult = Result<(), Box<dyn Error>>
Ok == [ok |-> TRUE]
Err(reason) == [ok |-> FALSE, reason |-> reason]

\* An operation (a TestCallback) is described by what it does when called:
\* kind "Ok" returns Ok(()), "Err" returns Err(arg), "Panic" panics with the
\* payload arg, and "Host" calls into the host (which may dispatch commands
\* meanwhile) and then returns Ok(()).
TestStep_new(name, operation) == [name |-> name, operation |-> operation]

\* The steps pushed: every kind of operation, under both names.
TestSteps ==
    {TestStep_new("a", [kind |-> "Ok", arg |-> ""]),
     TestStep_new("b", [kind |-> "Host", arg |-> ""]),
     TestStep_new("a", [kind |-> "Err", arg |-> "X"]),
     TestStep_new("b", [kind |-> "Err", arg |-> "Y"]),
     TestStep_new("a", [kind |-> "Panic", arg |-> "P1"]),
     TestStep_new("b", [kind |-> "Panic", arg |-> "P2"])}

\* The id the host allocates for a command name (the same name gets the
\* same id); the other commands of HostCommands are commands of the host
\* that the harness never registers.
CommandIdOf(name) == IF name = "test_action" THEN 1 ELSE 2

\* ------------------------------------------------------------- the lines
StartBanner == "# Testing reaper-rs\n"
StepLine(name) == <<"Testing step: ", name>>
SuccessBanner == "From REAPER: reaper-rs integration test executed successfully"
FailedLine(reason) == <<"From REAPER: reaper-rs integration test failed: ", reason>>
PanicReason == "Reaper panicked!"
\* (the source quotes load(context) and get() in backticks)
ExpectInstance == "call load(context) before using get()"

VARIABLES
    env,            \* whether RUN_REAPER_INTEGRATION_TEST is set
    instance,       \* static mut INSTANCE: Option<ReaperTest>
    INIT_INSTANCE,  \* the Once of make_available_globally: TRUE once spent
    host,           \* what the harness has registered with the host
    process,        \* running, or exited with a code
    stack,          \* the runs (calls of test) in progress, innermost last
    stdout, stderr, \* the lines printed
    ret,            \* how the latest finished call into the harness ended
                    \* (a value, a panic, or the exit of the process)
    lastRun,        \* the latest finished run of test: its steps, the
                    \* steps it invoked, its trace, its result, its report and where
                    \* stdout and stderr stood when it ended
    runs,           \* runs started
    polls,          \* poll cycles of the control surface
    pollRuns,       \* runs started by a poll
    setups,         \* calls of setup
    constructed,    \* ReaperTest values constructed
    pushed          \* the steps given to push_test_step, in call order

vars == <<env, instance, INIT_INSTANCE, host, process, stack, stdout, stderr,
          ret, lastRun, runs, polls, pollRuns, setups, constructed, pushed>>

NoRun == [done |-> FALSE]
NoCall == [op |-> "none", cmd |-> 0, result |-> "none", msg |-> "", run |-> 0]
Returned(op, cmd, result, run) ==
    [op |-> op, cmd |-> cmd, result |-> result, msg |-> "", run |-> run]
Panicked(op, cmd, msg, run) ==
    [op |-> op, cmd |-> cmd, result |-> "panic", msg |-> msg, run |-> run]

Running == [state |-> "running"]
Exited(code) == [state |-> "exited", code |-> code]

Init ==
    /\ env \in BOOLEAN
    /\ instance = None
    /\ INIT_INSTANCE = FALSE
    /\ host = [command_id |-> {}, gaccel |-> <<>>, hook_command |-> 0,
               csurf_inst |-> 0, destroy_hook |-> 0, loaded |-> TRUE]
    /\ process = Running
    /\ stack = <<>>
    /\ stdout = <<>>
    /\ stderr = <<>>
    /\ ret = NoCall
    /\ lastRun = NoRun
    /\ runs = 0
    /\ polls = 0
    /\ pollRuns = 0
    /\ setups = 0
    /\ constructed = 0
    /\ pushed = <<>>

\* ------------------------------------------------------------ accessors

\* INSTANCE.as_ref().expect(..) / INSTANCE.as_mut().expect(..): a reference
\* to the singleton, or a panic.
get(inst) ==
    IF inst.some THEN [ok |-> TRUE] ELSE [ok |-> FALSE, msg |-> ExpectInstance]

\* (variant of get_mut: the Option is not checked)
get_mut_unchecked(inst) == [ok |-> TRUE]

get_mut(inst) ==
    IF inst.some THEN [ok |-> TRUE] ELSE [ok |-> FALSE, msg |-> ExpectInstance]

Get ==
    /\ process.state = "running"
    /\ stack = <<>>
    /\ ret' = IF get(instance).ok THEN Returned("get", 0, "ref", 0)
              ELSE Panicked("get", 0, get(instance).msg, 0)
    /\ UNCHANGED <<env, instance, INIT_INSTANCE, host, process, stack, stdout,
                   stderr, lastRun, runs, polls, pollRuns, setups, constructed, pushed>>

GetMut ==
    /\ process.state = "running"
    /\ stack = <<>>
    /\ ret' = IF get_mut(instance).ok THEN Returned("get_mut", 0, "ref", 0)
              ELSE Panicked("get_mut", 0, get_mut(instance).msg, 0)
    /\ UNCHANGED <<env, instance, INIT_INSTANCE, host, process, stack, stdout,
                   stderr, lastRun, runs, polls, pollRuns, setups, constructed, pushed>>

\* ---------------------------------------------------------------- setup

\* check_action_hook: the hook state is created, and the hook callback
\* registered with the host, when the harness has none yet.
check_action_hook(self, h) ==
    IF ~self.action_hook.some
    THEN [self |-> [self EXCEPT !.action_hook = Some([actions |-> <<>>])],
          host |-> [h EXCEPT !.hook_command = @ + 1]]
    ELSE [self |-> self, host |-> h]

\* register_action: a command id for the name, an action binding for it,
\* and the id appended to the hook's actions.
register_action(self, h, command_name) ==
    LET c == check_action_hook(self, h)
        command_id == CommandIdOf(command_name)
        hook == c.self.action_hook.val
    IN  [self |-> [c.self EXCEPT !.action_hook =
                       Some([actions |-> Append(hook.actions, command_id)])],
         host |-> [c.host EXCEPT !.command_id = @ \cup {command_name},
                                 !.gaccel = Append(@, command_id)],
         command_id |-> command_id]

\* make_available_globally: the first call installs the instance and
\* registers the destroy hook; a later call drops the instance it is given.
\* (variant of make_available_globally: call_once is not consulted)
make_available_globally_unguarded(reaper, inst, once, h) ==
    [instance |-> Some(reaper),
     host |-> [h EXCEPT !.destroy_hook = @ + 1]]

make_available_globally(reaper, inst, once, h) ==
    IF ~once
    THEN [instance |-> Some(reaper),
          host |-> [h EXCEPT !.destroy_hook = @ + 1]]
    ELSE [instance |-> inst, host |-> h]

Setup(action_name) ==
    /\ process.state = "running"
    /\ stack = <<>>
    /\ setups < MaxSetups
    /\ LET new == [uid |-> constructed + 1, action_hook |-> None,
                   steps |-> <<>>, is_integration_test |-> env]
           integration == new.is_integration_test
           reg == register_action(new, host, action_name)
           glob == make_available_globally(reg.self, instance, INIT_INSTANCE,
                                           reg.host)
           obj == get_mut(glob.instance)
       IN  /\ instance' = glob.instance
           /\ INIT_INSTANCE' = TRUE
           /\ host' = IF obj.ok /\ integration
                      THEN [glob.host EXCEPT !.csurf_inst = @ + 1]
                      ELSE glob.host
           /\ ret' = IF obj.ok THEN Returned("setup", reg.command_id, "ref", 0)
                     ELSE Panicked("setup", reg.command_id, obj.msg, 0)
    /\ setups' = setups + 1
    /\ constructed' = constructed + 1
    /\ UNCHANGED <<env, process, stack, stdout, stderr, lastRun, runs, polls,
                   pollRuns, pushed>>

\* The destroy hook registered by make_available_globally: INSTANCE = None.
Teardown ==
    /\ process.state = "running"
    /\ stack = <<>>
    /\ host.loaded
    /\ host.destroy_hook > 0
    /\ instance' = None
    /\ host' = [host EXCEPT !.loaded = FALSE]
    /\ UNCHANGED <<env, INIT_INSTANCE, process, stack, stdout, stderr, ret,
                   lastRun, runs, polls, pollRuns, setups, constructed, pushed>>

\* (variant of push_test_step: the step is put first)
push_test_step_front(self, step) == [self EXCEPT !.steps = <<step>> \o @]

push_test_step(self, step) == [self EXCEPT !.steps = Append(@, step)]

PushTestStep(step) ==
    /\ process.state = "running"
    /\ stack = <<>>
    /\ instance.some
    /\ Len(instance.val.steps) < MaxSteps
    /\ instance' = Some(push_test_step(instance.val, step))
    /\ pushed' = Append(pushed, step)
    /\ UNCHANGED <<env, INIT_INSTANCE, host, process, stack, stdout, stderr,
                   ret, lastRun, runs, polls, pollRuns, setups, constructed>>

\* ------------------------------------------------------------- the run

Top == stack[Len(stack)]

\* What calling an operation does at once: it has returned a TestStepResult,
\* it has panicked, or it is still executing inside the host.
Call(operation) ==
    CASE operation.kind = "Ok" -> [state |-> "returned", value |-> Ok]
      [] operation.kind = "Err" ->
            [state |-> "returned", value |-> Err(operation.arg)]
      [] operation.kind = "Panic" ->
            [state |-> "panicked", payload |-> operation.arg]
      [] OTHER -> [state |-> "in_host"]

\* Whether the for loop of test goes on after an operation returned: the ?
\* operator leaves the closure on an Err.
\* (variant of Continues: the ? is missing)
Continues_ignoring_err(value) == TRUE

Continues(value) == value.ok

\* The next position of steps.iter().
NextStep(i) == i + 1

\* (variant of final_result: the reason is the payload of the panic)
final_result_with_payload(outcome) ==
    IF outcome.state = "panicked" THEN Err(outcome.payload) ELSE outcome.value

\* catch_unwind and the match on its result: the closure's value, or
\* Err("Reaper panicked!") whatever the panic carried.
final_result(outcome) ==
    IF outcome.state = "panicked" THEN Err(PanicReason) ELSE outcome.value

\* (variant of ExitReporter: no process::exit(0))
ExitReporter_returning_on_success(result, is_integration_test) ==
    IF result.ok
    THEN [out |-> <<SuccessBanner>>, err |-> <<>>, end |-> "return"]
    ELSE IF is_integration_test
         THEN [out |-> <<>>, err |-> <<FailedLine(result.reason)>>,
               end |-> "exit", code |-> ExitFailure]
         ELSE [out |-> <<>>, err |-> <<>>, end |-> "panic",
               msg |-> FailedLine(result.reason)]

\* (variant of ExitReporter: a failure exits with the code of success)
ExitReporter_one_exit_code(result, is_integration_test) ==
    IF result.ok
    THEN IF is_integration_test
         THEN [out |-> <<SuccessBanner>>, err |-> <<>>, end |-> "exit",
               code |-> ExitSuccess]
         ELSE [out |-> <<SuccessBanner>>, err |-> <<>>, end |-> "return"]
    ELSE IF is_integration_test
         THEN [out |-> <<>>, err |-> <<FailedLine(result.reason)>>,
               end |-> "exit", code |-> ExitSuccess]
         ELSE [out |-> <<>>, err |-> <<>>, end |-> "panic",
               msg |-> FailedLine(result.reason)]

\* (variant of ExitReporter: is_integration_test is not consulted)
ExitReporter_ignoring_mode(result, is_integration_test) ==
    IF result.ok
    THEN [out |-> <<SuccessBanner>>, err |-> <<>>, end |-> "exit",
          code |-> ExitSuccess]
    ELSE [out |-> <<>>, err |-> <<FailedLine(result.reason)>>,
          end |-> "exit", code |-> ExitFailure]

\* The match on final_result at the end of test: what is printed, and how
\* test ends (process::exit, a panic, or a return to the caller).
ExitReporter(result, is_integration_test) ==
    IF result.ok
    THEN IF is_integration_test
         THEN [out |-> <<SuccessBanner>>, err |-> <<>>, end |-> "exit",
               code |-> ExitSuccess]
         ELSE [out |-> <<SuccessBanner>>, err |-> <<>>, end |-> "return"]
    ELSE IF is_integration_test
         THEN [out |-> <<>>, err |-> <<FailedLine(result.reason)>>,
               end |-> "exit", code |-> ExitFailure]
         ELSE [out |-> <<>>, err |-> <<>>, end |-> "panic",
               msg |-> FailedLine(result.reason)]

\* The caller of test: "hook" is ActionHook::call, "run" is
\* ReaperTestSurface::run.  What the caller does once test has returned:
\* the hook returns true, the surface clears is_integration_test.
AfterTestValue(via) == IF via = "hook" THEN "true" ELSE "unit"

AfterTestSelf(via, self) ==
    IF via = "run" THEN [self EXCEPT !.is_integration_test = FALSE] ELSE self

\* What a run does, in order, is kept in the trace of its frame: a line
\* printed to a stream, the call of a step's operation, the panic raised.
Printed(stream, line) == [what |-> "print", stream |-> stream, line |-> line]
Called(step) == [what |-> "call", step |-> step]
Raised(msg) == [what |-> "panic", line |-> msg]

\* (variant of StepEvents: the operation is called before the println)
StepEvents_call_first(step) ==
    <<Called(step), Printed("stdout", StepLine(step.name))>>

\* One turn of the for loop: println of the step's name, then the call.
StepEvents(step) ==
    <<Printed("stdout", StepLine(step.name)), Called(step)>>

\* What the match on final_result does with report rep.
ReportEvents(rep) ==
    [k \in 1 .. Len(rep.out) |-> Printed("stdout", rep.out[k])]
        \o [k \in 1 .. Len(rep.err) |-> Printed("stderr", rep.err[k])]
        \o IF rep.end = "panic" THEN <<Raised(rep.msg)>> ELSE <<>>

\* The start of test: the banner is printed and the closure is entered.
StartTest(via, cmd) ==
    /\ stdout' = Append(stdout, StartBanner)
    /\ stack' = Append(stack, [id |-> runs + 1, via |-> via, cmd |-> cmd,
                               i |-> 0, invoked |-> <<>>, inOp |-> FALSE,
                               trace |-> <<Printed("stdout", StartBanner)>>])
    /\ runs' = runs + 1

\* The end of test for frame f with the closure's outcome, out being stdout
\* so far: the report, and then the exit, the panic or the return.
EndTest(f, outcome, out) ==
    LET self == instance.val
        result == final_result(outcome)
        rep == ExitReporter(result, self.is_integration_test)
    IN  /\ stdout' = out \o rep.out
        /\ stderr' = stderr \o rep.err
        /\ lastRun' = [done |-> TRUE, id |-> f.id, via |-> f.via,
                       cmd |-> f.cmd, steps |-> self.steps,
                       invoked |-> f.invoked, final_result |-> result,
                       trace |-> f.trace \o ReportEvents(rep),
                       mode |-> self.is_integration_test, report |-> rep,
                       out |-> Len(out \o rep.out),
                       err |-> Len(stderr \o rep.err)]
        /\ IF rep.end = "exit"
           THEN /\ process' = Exited(rep.code)
                /\ ret' = Returned(f.via, f.cmd, "exit", f.id)
                /\ UNCHANGED <<stack, instance>>
           ELSE /\ process' = process
                /\ stack' = SubSeq(stack, 1, Len(stack) - 1)
                /\ IF rep.end = "panic"
                   THEN /\ ret' = Panicked(f.via, f.cmd, rep.msg, f.id)
                        /\ instance' = instance
                   ELSE /\ ret' = Returned(f.via, f.cmd,
                                           AfterTestValue(f.via), f.id)
                        /\ instance' = Some(AfterTestSelf(f.via, self))

\* (variant of IsAction: the ids are not compared)
IsAction_any_command(hook, command_id) == hook.actions # <<>>

\* Whether command_id is one of the hook's actions (the loop of call).
IsAction(hook, command_id) ==
    \E k \in 1 .. Len(hook.actions) : hook.actions[k] = command_id

\* ActionHook::call: the host dispatches a command to the hook, from its
\* loop or from inside an operation that called into the host.
HookCommand_call(command_id) ==
    /\ process.state = "running"
    /\ host.loaded
    /\ host.hook_command > 0
    /\ IF stack = <<>> THEN TRUE ELSE Top.inOp
    /\ LET rpr == get_mut(instance) IN
       IF ~rpr.ok
       THEN /\ ret' = Panicked("hook", command_id, rpr.msg, 0)
            /\ UNCHANGED <<stdout, stack, runs>>
       ELSE IF ~instance.val.action_hook.some
       THEN /\ ret' = Panicked("hook", command_id, "should be hook here", 0)
            /\ UNCHANGED <<stdout, stack, runs>>
       ELSE IF IsAction(instance.val.action_hook.val, command_id)
       THEN /\ runs < MaxRuns
            /\ StartTest("hook", command_id)
            /\ ret' = ret
       ELSE /\ ret' = Returned("hook", command_id, "false", 0)
            /\ UNCHANGED <<stdout, stack, runs>>
    /\ UNCHANGED <<env, instance, INIT_INSTANCE, host, process, stderr,
                   lastRun, polls, pollRuns, setups, constructed, pushed>>

\* (variant of SurfaceArmed: the condition is inverted)
SurfaceArmed_negated(rpr) == ~rpr.is_integration_test

\* The condition of ReaperTestSurface::run.
SurfaceArmed(rpr) == rpr.is_integration_test

\* ReaperTestSurface::run: one poll of one registered control surface.
Poll ==
    /\ process.state = "running"
    /\ stack = <<>>
    /\ host.loaded
    /\ host.csurf_inst > 0
    /\ polls < MaxPolls
    /\ polls' = polls + 1
    /\ LET rpr == get_mut(instance) IN
       IF ~rpr.ok
       THEN /\ ret' = Panicked("run", 0, rpr.msg, 0)
            /\ UNCHANGED <<stdout, stack, runs, pollRuns>>
       ELSE IF SurfaceArmed(instance.val)
       THEN /\ runs < MaxRuns
            /\ StartTest("run", 0)
            /\ pollRuns' = pollRuns + 1
            /\ ret' = ret
       ELSE /\ ret' = Returned("run", 0, "unit", 0)
            /\ UNCHANGED <<stdout, stack, runs, pollRuns>>
    /\ UNCHANGED <<env, instance, INIT_INSTANCE, host, process, stderr,
                   lastRun, setups, constructed, pushed>>

\* One turn of the for loop of test in the innermost run: the next step is
\* printed and its operation called, or the steps are exhausted.
TestLoop ==
    /\ process.state = "running"
    /\ stack # <<>>
    /\ ~Top.inOp
    /\ instance.some
    /\ LET f == Top
           steps == instance.val.steps
       IN  IF f.i < Len(steps)
           THEN LET step == steps[NextStep(f.i)]
                    outcome == Call(step.operation)
                    g == [f EXCEPT !.i = NextStep(f.i),
                                   !.invoked = Append(@, step),
                                   !.trace = @ \o StepEvents(step)]
                    out == Append(stdout, StepLine(step.name))
                IN  IF outcome.state = "in_host"
                    THEN /\ stack' = [stack EXCEPT ![Len(stack)] =
                                          [g EXCEPT !.inOp = TRUE]]
                         /\ stdout' = out
                         /\ UNCHANGED <<instance, process, stderr, ret, lastRun>>
                    ELSE IF outcome.state = "returned" /\ Continues(outcome.value)
                    THEN /\ stack' = [stack EXCEPT ![Len(stack)] = g]
                         /\ stdout' = out
                         /\ UNCHANGED <<instance, process, stderr, ret, lastRun>>
                    ELSE EndTest(g, outcome, out)
           ELSE EndTest(f, [state |-> "returned", value |-> Ok], stdout)
    /\ UNCHANGED <<env, INIT_INSTANCE, host, runs, polls, pollRuns, setups,
                   constructed, pushed>>

\* An operation that called into the host returns Ok(()).
OpReturn ==
    /\ process.state = "running"
    /\ stack # <<>>
    /\ Top.inOp
    /\ stack' = [stack EXCEPT ![Len(stack)] = [Top EXCEPT !.inOp = FALSE]]
    /\ UNCHANGED <<env, instance, INIT_INSTANCE, host, process, stdout, stderr,
                   ret, lastRun, runs, polls, pollRuns, setups, constructed, pushed>>

Next ==
    \/ Get
    \/ GetMut
    \/ \E a \in ActionNames : Setup(a)
    \/ Teardown
    \/ \E s \in TestSteps : PushTestStep(s)
    \/ \E c \in HostCommands : HookCommand_call(c)
    \/ Poll
    \/ TestLoop
    \/ OpReturn

Spec == Init /\ [][Next]_vars

\* ------------------------------------------------------------ the claims

\* What the description of an operation says it reports to the runner.
Succeeds(step) == step.operation.kind \in {"Ok", "Host"}
Fails(step) == step.operation.kind = "Err"
Crashes(step) == step.operation.kind = "Panic"

\* Step k of steps is the first that does not succeed.
FirstNotSucceeding(steps, k) ==
    /\ k \in 1 .. Len(steps)
    /\ ~Succeeds(steps[k])
    /\ \A j \in 1 .. k - 1 : Succeeds(steps[j])

IsPrefix(s, t) == Len(s) <= Len(t) /\ s = SubSeq(t, 1, Len(s))

\* C1: when step k is the first whose operation reports failure, a finished
\* run has invoked exactly steps 1..k, each once and in registration order,
\* none of the steps after k, and its result is Err with step k's reason.
C1_FirstFailureHalts ==
    lastRun.done =>
        \A k \in 1 .. Len(lastRun.steps) :
            (FirstNotSucceeding(lastRun.steps, k) /\ Fails(lastRun.steps[k])) =>
                /\ lastRun.invoked = SubSeq(lastRun.steps, 1, k)
                /\ IsPrefix(lastRun.invoked, pushed)
                /\ lastRun.final_result = Err(lastRun.steps[k].operation.arg)

\* A finished run of two steps whose first step reported failure.
C1_Witness ==
    /\ lastRun.done
    /\ Len(lastRun.steps) = 2
    /\ Fails(lastRun.steps[1])

\* C2: when every step succeeds (no step at all included), a finished run
\* has result Ok and has invoked every step once, in the order of the
\* push_test_step calls.
C2_AllSucceed ==
    (lastRun.done /\ \A k \in 1 .. Len(lastRun.steps) : Succeeds(lastRun.steps[k])) =>
        /\ lastRun.final_result = Ok
        /\ lastRun.invoked = lastRun.steps
        /\ IsPrefix(lastRun.invoked, pushed)

\* A finished run of two different steps that both succeeded.
C2_Witness ==
    /\ lastRun.done
    /\ Len(lastRun.steps) = 2
    /\ lastRun.steps[1] # lastRun.steps[2]
    /\ \A k \in 1 .. 2 : Succeeds(lastRun.steps[k])
    /\ lastRun.final_result = Ok

\* A finished run of no step at all.
C2_WitnessEmpty == lastRun.done /\ lastRun.steps = <<>>

\* C3 (as claimed): a call of setup after the first is a no-op: it returns
\* the Harness reference, constructs no ReaperTest, registers nothing with
\* the host and leaves the installed instance (and so its steps) alone.
C3_SecondSetupIsNoOp ==
    [][(setups >= 1 /\ setups' = setups + 1) =>
           /\ ret'.result = "ref"
           /\ constructed' = constructed
           /\ host' = host
           /\ instance' = instance]_vars

\* C4: before setup, get and get_mut panic with the expect message: no
\* reference is returned, no run has happened, nothing was printed and the
\* process has not exited.
C4_GetBeforeSetupPanics ==
    (setups = 0 /\ ret.op \in {"get", "get_mut"}) =>
        /\ ret.result = "panic"
        /\ ret.msg = ExpectInstance
        /\ ~lastRun.done
        /\ runs = 0
        /\ process = Running
        /\ stdout = <<>>
        /\ stderr = <<>>

\* get_mut was called before any setup.
C4_Witness == setups = 0 /\ ret.op = "get_mut"

\* get was called before any setup.
C4_WitnessGet == setups = 0 /\ ret.op = "get"

\* C5: with RUN_REAPER_INTEGRATION_TEST set, a run that finished with Ok
\* has printed the success banner last and the process has exited with 0.
C5_AutomatedSuccessExits0 ==
    (env /\ lastRun.done /\ lastRun.final_result.ok) =>
        /\ process.state = "exited"
        /\ process.code = 0
        /\ stdout # <<>>
        /\ stdout[Len(stdout)] = SuccessBanner
        /\ stderr = <<>>

\* An automated run of two steps finished with Ok.
C5_Witness ==
    /\ env
    /\ lastRun.done
    /\ lastRun.final_result.ok
    /\ Len(lastRun.invoked) = 2

\* C6: with RUN_REAPER_INTEGRATION_TEST set, a run whose last invoked step
\* returned Err(X) has written the failure line with X to stderr (and
\* nothing else), has raised no panic, and the process has exited with 172.
C6_AutomatedFailureExits172 ==
    (env /\ lastRun.done /\ lastRun.invoked # <<>>
         /\ Fails(lastRun.invoked[Len(lastRun.invoked)])) =>
        /\ stderr = <<FailedLine(lastRun.invoked[Len(lastRun.invoked)].operation.arg)>>
        /\ lastRun.report.end = "exit"
        /\ process.state = "exited"
        /\ process.code = 172

\* An automated run whose second step returned Err("Y").
C6_Witness ==
    /\ env
    /\ lastRun.done
    /\ Len(lastRun.invoked) = 2
    /\ Fails(lastRun.invoked[2])
    /\ lastRun.invoked[2].operation.arg = "Y"

\* C7: with RUN_REAPER_INTEGRATION_TEST set, at most one run is ever
\* started by a poll, and once the surface has been polled at all that run
\* has been started (so it was the first poll that started it).
C7_PollFiresOnce ==
    env => /\ pollRuns <= 1
           /\ (polls >= 1 => pollRuns = 1)
           /\ (pollRuns = 1 => stack # <<>> /\ stack[1].via = "run")

\* The surface has been polled in automated mode, after two steps were
\* pushed, and the run its poll started has ended.
C7_Witness ==
    /\ env
    /\ polls = 1
    /\ pollRuns = 1
    /\ lastRun.done
    /\ lastRun.via = "run"
    /\ Len(lastRun.steps) = 2

\* C8: when the first step that does not succeed panics, the finished run
\* has result Err("Reaper panicked!") whatever the payload, has invoked no
\* later step, the singleton is still installed, and the report was made
\* in the mode of the harness: exit 172 with the reason on stderr in
\* automated mode, the panic of the interactive report otherwise.
C8_PanicContained ==
    lastRun.done =>
        \A k \in 1 .. Len(lastRun.steps) :
            (FirstNotSucceeding(lastRun.steps, k) /\ Crashes(lastRun.steps[k])) =>
                /\ lastRun.final_result = Err("Reaper panicked!")
                /\ lastRun.invoked = SubSeq(lastRun.steps, 1, k)
                /\ (host.loaded => instance.some)
                /\ lastRun.mode = env
                /\ env => /\ process.state = "exited"
                          /\ process.code = 172
                          /\ stderr = <<FailedLine("Reaper panicked!")>>
                /\ ~env => /\ process = Running
                           /\ lastRun.report.end = "panic"
                           /\ lastRun.report.msg = FailedLine("Reaper panicked!")

\* A finished automated run of two steps whose first step panicked with
\* payload P2.
C8_Witness ==
    /\ env
    /\ lastRun.done
    /\ Len(lastRun.steps) = 2
    /\ Crashes(lastRun.steps[1])
    /\ lastRun.steps[1].operation.arg = "P2"

\* C9: without RUN_REAPER_INTEGRATION_TEST the process never exits; a run
\* that finished with Ok printed the success banner and returned to its
\* caller, and a run that finished with Err(reason) raised a panic carrying
\* the failure line with that reason; either way the run is off the stack.
C9_InteractiveNeverExits ==
    ~env =>
        /\ process = Running
        /\ lastRun.done =>
              /\ \A n \in 1 .. Len(stack) : stack[n].id # lastRun.id
              /\ IF lastRun.final_result.ok
                 THEN /\ lastRun.report.end = "return"
                      /\ lastRun.out \in 1 .. Len(stdout)
                      /\ stdout[lastRun.out] = SuccessBanner
                 ELSE /\ lastRun.report.end = "panic"
                      /\ lastRun.report.msg =
                             FailedLine(lastRun.final_result.reason)
                      /\ stderr = <<>>

\* An interactive run finished with Err.
C9_Witness == ~env /\ lastRun.done /\ ~lastRun.final_result.ok

\* An interactive run finished with Ok.
C9_WitnessSuccess == ~env /\ lastRun.done /\ lastRun.final_result.ok

\* The actions of the installed hook.
RegisteredCommands ==
    IF instance.some /\ instance.val.action_hook.some
    THEN {instance.val.action_hook.val.actions[k] :
              k \in 1 .. Len(instance.val.action_hook.val.actions)}
    ELSE {}

\* C10 (as claimed): a finished call of the hook with a registered command
\* has triggered a run and returned true; with any other command it has
\* triggered no run and returned false.
C10_HookReportsHandled ==
    (ret.op = "hook" /\ instance.some) =>
        IF ret.cmd \in RegisteredCommands
        THEN ret.run > 0 /\ ret.result = "true"
        ELSE ret.run = 0 /\ ret.result = "false"

\* C10 (amended): a finished call of the hook with a registered command has
\* triggered a run; it returned true exactly when that run returned, which
\* is in interactive mode with result Ok; in automated mode the process
\* exited inside the call, and an interactive run with result Err left the
\* call by its panic.  With any other command the call triggered no run
\* and returned false.
C10_HookReportsHandledWhenRunReturns ==
    (ret.op = "hook" /\ instance.some) =>
        IF ret.cmd \in RegisteredCommands
        THEN /\ ret.run > 0
             /\ lastRun.done
             /\ lastRun.id = ret.run
             /\ lastRun.via = "hook"
             /\ lastRun.cmd = ret.cmd
             /\ ret.result = "true" <=> (~env /\ lastRun.final_result.ok)
             /\ ret.result = "exit" <=> env
             /\ ret.result = "panic" <=> (~env /\ ~lastRun.final_result.ok)
        ELSE ret.run = 0 /\ ret.result = "false"

\* The hook was called with a registered command and returned true.
C10_Witness ==
    /\ ret.op = "hook"
    /\ instance.some
    /\ ret.cmd \in RegisteredCommands
    /\ ret.result = "true"

\* The hook was called with a command that is not registered.
C10_WitnessNotHandled ==
    /\ ret.op = "hook"
    /\ instance.some
    /\ ret.cmd \notin RegisteredCommands

\* C11: with RUN_REAPER_INTEGRATION_TEST set, every run started (by a poll
\* or by the hook) stays on the stack until the process exits: none returns
\* or panics back to the host.  A finished run has ended the process, with
\* code 0 when its result is Ok and 172 when it is Err (a failed step or a
\* caught panic), and the process exits with no other code.
C11_AutomatedRunsEndInExit ==
    env =>
        /\ Len(stack) = runs
        /\ ret.op \in {"hook", "run"} /\ ret.run > 0 => ret.result = "exit"
        /\ process.state = "exited" =>
              /\ lastRun.done
              /\ process.code \in {0, 172}
        /\ lastRun.done =>
              /\ process.state = "exited"
              /\ lastRun.report.end = "exit"
              /\ process.code = IF lastRun.final_result.ok THEN 0 ELSE 172
              /\ lastRun.final_result.ok <=>
                     \A k \in 1 .. Len(lastRun.steps) : Succeeds(lastRun.steps[k])

\* An automated run started by the hook ended with a caught panic.
C11_Witness ==
    /\ env
    /\ lastRun.done
    /\ lastRun.via = "hook"
    /\ lastRun.invoked # <<>>
    /\ Crashes(lastRun.invoked[Len(lastRun.invoked)])

\* An automated run started by a poll ended with Ok.
C11_WitnessPoll ==
    /\ env
    /\ lastRun.done
    /\ lastRun.via = "run"
    /\ lastRun.final_result.ok

\* The trigger surface is Armed while the installed harness has
\* is_integration_test set, and Fired once line 307 has cleared it.
Armed == instance.some /\ instance.val.is_integration_test
Fired == instance.some /\ ~instance.val.is_integration_test

\* C12 (as claimed): a registered surface is Armed until it is polled, and
\* once the run started by its first poll has been reported the surface is
\* Fired.
C12_ArmedThenFired ==
    host.csurf_inst > 0 =>
        /\ (polls = 0 /\ host.loaded) => Armed
        /\ (lastRun.done /\ lastRun.via = "run") => Fired

\* C12 (amended): a registered surface is Armed until it is polled; its
\* first poll starts the run, and the report of that run exits the process,
\* so the surface is never Fired: it is still Armed when the process ends,
\* and it is polled at most once.
C12_ArmedUntilExit ==
    host.csurf_inst > 0 =>
        /\ ~Fired
        /\ host.loaded => Armed
        /\ polls <= 1
        /\ polls = 1 => /\ pollRuns = 1
                        /\ stack # <<>>
                        /\ stack[1].via = "run"
        /\ (lastRun.done /\ lastRun.via = "run") =>
              /\ polls = 1
              /\ lastRun.report.end = "exit"
              /\ process.state = "exited"
              /\ Armed

\* The run started by the first poll of the surface has been reported.
C12_Witness ==
    /\ host.csurf_inst > 0
    /\ polls = 1
    /\ lastRun.done
    /\ lastRun.via = "run"
    /\ Len(lastRun.invoked) = 2

OnStdout(e) == e.what = "print" /\ e.stream = "stdout"
OnStderr(e) == e.what = "print" /\ e.stream = "stderr"

\* The lines among the events t that went to stdout, and to stderr.
StdoutOf(t) ==
    LET sel == SelectSeq(t, OnStdout) IN [k \in 1 .. Len(sel) |-> sel[k].line]
StderrOf(t) ==
    LET sel == SelectSeq(t, OnStderr) IN [k \in 1 .. Len(sel) |-> sel[k].line]

\* C13: what a finished run did is, in this order: the start banner on
\* stdout; for each step it invoked, the line naming the step on stdout and
\* then the call of its operation; and one final banner: the success banner
\* on stdout, or the failure line with the reason, on stderr in automated
\* mode and as the panic's message otherwise.  Only the last invoked step
\* can have failed, so no step is named after a failing one.  When the run
\* was the only one of the process, stdout and stderr hold exactly its
\* lines.
C13_LinesInOrder ==
    lastRun.done =>
        LET t == lastRun.trace
            n == Len(lastRun.invoked)
            last == t[Len(t)]
        IN  /\ Len(t) = 2 * n + 2
            /\ OnStdout(t[1]) /\ t[1].line = StartBanner
            /\ \A k \in 1 .. n :
                  /\ OnStdout(t[2 * k])
                  /\ t[2 * k].line = <<"Testing step: ", lastRun.invoked[k].name>>
                  /\ t[2 * k + 1].what = "call"
                  /\ t[2 * k + 1].step = lastRun.invoked[k]
            /\ \A k \in 1 .. n - 1 : Succeeds(lastRun.invoked[k])
            /\ IF lastRun.final_result.ok
               THEN OnStdout(last) /\ last.line = SuccessBanner
               ELSE IF env
               THEN OnStderr(last) /\ last.line = FailedLine(lastRun.final_result.reason)
               ELSE /\ last.what = "panic"
                    /\ last.line = FailedLine(lastRun.final_result.reason)
            /\ runs = 1 => /\ stdout = StdoutOf(t)
                           /\ stderr = StderrOf(t)

\* An automated run that invoked two steps, the second of which failed.
C13_Witness ==
    /\ env
    /\ lastRun.done
    /\ runs = 1
    /\ Len(lastRun.invoked) = 2
    /\ ~lastRun.final_result.ok

\* C14: the global reference is installed at most once, by the setup that
\* spends the one-time guard, which is never restored; while it is
\* installed it names the same harness object after every step; and it is
\* cleared only by the teardown hook, the step that unloads the plug-in.
C14_InstalledOnce ==
    [][ /\ INIT_INSTANCE => INIT_INSTANCE'
        /\ (instance.some /\ instance'.some) =>
               instance'.val.uid = instance.val.uid
        /\ (~instance.some /\ instance'.some) =>
               /\ ~INIT_INSTANCE
               /\ INIT_INSTANCE'
               /\ setups' = setups + 1
        /\ (instance.some /\ ~instance'.some) =>
               /\ host.loaded
               /\ ~host'.loaded
               /\ host.destroy_hook > 0 ]_vars

\* Two setups, steps pushed and a finished run, and the reference still
\* names the harness the first setup constructed.
C14_Witness ==
    /\ setups = 2
    /\ constructed = 2
    /\ lastRun.done
    /\ instance.some
    /\ instance.val.uid = 1
    /\ instance.val.steps # <<>>

\* The teardown hook has cleared the reference after a finished run.
C14_WitnessCleared ==
    /\ ~host.loaded
    /\ ~instance.some
    /\ INIT_INSTANCE
    /\ lastRun.done

\* C15: without the environment flag no control surface is registered with
\* the host, so the host never polls and no run is started by a poll; each
\* run, in progress or finished, was started by the hook for a command id
\* that the harness has registered.
C15_InteractiveRunsOnlyByCommand ==
    ~env =>
        /\ host.csurf_inst = 0
        /\ polls = 0
        /\ pollRuns = 0
        /\ \A k \in 1 .. Len(stack) :
              /\ stack[k].via = "hook"
              /\ stack[k].cmd \in RegisteredCommands
        /\ lastRun.done =>
              /\ lastRun.via = "hook"
              /\ instance.some => lastRun.cmd \in RegisteredCommands
        /\ (ret.op = "hook" /\ instance.some /\ ret.cmd \notin RegisteredCommands) =>
              ret.run = 0

\* Interactive mode: a run started by the registered command has finished,
\* and the host has since dispatched another command that started no run.
C15_Witness ==
    /\ ~env
    /\ lastRun.done
    /\ lastRun.via = "hook"
    /\ instance.some
    /\ ret.op = "hook"
    /\ ret.cmd \notin RegisteredCommands
    /\ ret.run = 0

\* C16: while the process is running, the installed harness has the mode
\* that setup selected from the environment flag: is_integration_test is
\* true exactly when the flag is present, before, during and after every
\* run, poll and command.
C16_ModeFixedAtSetup ==
    (process.state = "running" /\ instance.some) =>
        instance.val.is_integration_test = env

\* Automated mode: the poll has started a run, a step has been invoked and
\* the process is still running.
C16_Witness ==
    /\ env
    /\ process.state = "running"
    /\ instance.some
    /\ stack # <<>>
    /\ stack[1].via = "run"
    /\ stack[1].invoked # <<>>

\* Interactive mode: a run has finished and the process is still running.
C16_WitnessInteractive ==
    /\ ~env
    /\ process.state = "running"
    /\ instance.some
    /\ lastRun.done

\* C17: once the teardown hook has cleared the global reference, no step
\* installs a harness again, and every call of get, get_mut or setup that
\* completes after it ends in the panic of expect, with its message; such
\* a setup finds the one-time guard spent and registers no control surface.
C17_NeverRecreated ==
    [][ ~host.loaded =>
            /\ ~instance.some
            /\ ~instance'.some
            /\ INIT_INSTANCE /\ INIT_INSTANCE'
            /\ host'.csurf_inst = host.csurf_inst
            /\ host'.destroy_hook = host.destroy_hook
            /\ ret' # ret =>
                  /\ ret'.op \in {"get", "get_mut", "setup"}
                  /\ ret'.result = "panic"
                  /\ ret'.msg = ExpectInstance
            /\ setups' # setups =>
                  /\ ret'.op = "setup"
                  /\ ret'.result = "panic"
                  /\ ret'.msg = ExpectInstance ]_vars

\* A setup called after the teardown hook has panicked and installed
\* nothing.
C17_Witness ==
    /\ ~host.loaded
    /\ setups = 2
    /\ ret.op = "setup"
    /\ ret.result = "panic"
    /\ ret.msg = ExpectInstance
    /\ ~instance.some

\* get_mut called after the teardown hook has panicked.
C17_WitnessGetMut ==
    /\ ~host.loaded
    /\ ret.op = "get_mut"
    /\ ret.result = "panic"
    /\ ret.msg = ExpectInstance

\* get called after the teardown hook has panicked.
C17_WitnessGet ==
    /\ ~host.loaded
    /\ ret.op = "get"
    /\ ret.result = "panic"
    /\ ret.msg = ExpectInstance

\* C18: at most one run of test is in progress: the stack of runs never
\* holds a second run while a step of an earlier one is executing.
C18_OneRunAtATime == Len(stack) <= 1
====
